---- MODULE Spec2Model ----
(***************************************************************************)
(* The singly linked list of linked_list.py: Node, LinkedList and its      *)
(* print_LL traversal.  Node and LinkedList objects live in two heaps      *)
(* (sequences indexed by object identity); a reference is an index into    *)
(* the heap, or Nil for Python's None.  Text is a sequence of characters,  *)
(* so that concatenation, str() and the separators are computed and not    *)
(* assumed.                                                                *)
(***************************************************************************)
EXTENDS Integers, Sequences

\* ---------------------------------------------------------------- bounds
MaxNodes == 2
MaxLists == 2
\* lists built in the specifications that follow one list's calls closely
\* (FairSpec, SpecCyc)
MaxFewLists == 1
\* iterations of the while loop followed in one print_LL call; every acyclic
\* chain ends within MaxNodes of them
MaxIter == MaxNodes + 1

\* ---------------------------------------------------------------- values
\* the reference None (a next_node, head or last_node that is absent)
Nil == 0

\* Python values that occur as Node.data or as a return value
NoneVal == [t |-> "NoneType", s |-> <<>>, i |-> 0]
StrVal(chars) == [t |-> "str", s |-> chars, i |-> 0]
IntVal(k) == [t |-> "int", s |-> <<>>, i |-> k]
\* the `ret` of a print_LL call that has not returned
NoCall == [t |-> "nocall", s |-> <<>>, i |-> 0]

\* Node("fir", ...), Node("2", ...), a number, and the default data=None
DataValues == {StrVal(<<"f", "i", "r">>), StrVal(<<"2">>), IntVal(12), NoneVal}

Digits == <<"0", "1", "2", "3", "4", "5", "6", "7", "8", "9">>

RECURSIVE DecimalDigits(_)
DecimalDigits(k) ==
    IF k < 10 THEN <<Digits[k + 1]>>
    ELSE DecimalDigits(k \div 10) \o <<Digits[(k % 10) + 1]>>

\* str(v)
PyStr(v) ==
    CASE v.t = "str" -> v.s
      [] v.t = "int" -> IF v.i < 0 THEN <<"-">> \o DecimalDigits(-v.i)
                        ELSE DecimalDigits(v.i)
      [] v.t = "NoneType" -> <<"N", "o", "n", "e">>

\* the literal " => " of the f-string
Sep == <<" ", "=", ">", " ">>
\* the literal "None" appended after the loop
Sentinel == <<"N", "o", "n", "e">>

\* ----------------------------------------------------------------- state
VARIABLES
    nodes,      \* heap of Node objects: [data, next_node]
    lists,      \* heap of LinkedList objects: [head, last_node]
    pc,         \* "idle", or "loop" while a print_LL call is at its while loop
    self,       \* the list print_LL runs on (Nil when idle)
    node,       \* print_LL's local `node`
    ll_string,  \* print_LL's local `ll_string`
    calls       \* the print_LL call in progress or last made, and the one before
                \* it, as far as made since a list or chain last changed:
                \* [self, out (the lines printed), steps (loop iterations),
                \*  ret (the value returned)]

vars == <<nodes, lists, pc, self, node, ll_string, calls>>

NodeIds == 1..Len(nodes)
ListIds == 1..Len(lists)

\* Node.__init__
NewNodeObj(d, nx) == [data |-> d, next_node |-> nx]

LinkedListObjBadTail == [head |-> Nil, last_node |-> 1]
\* LinkedList.__init__
NewListObj == [head |-> Nil, last_node |-> Nil]

\* print(None) when the head is absent
EmptyIndicatorMissing(h) == <<>>
EmptyIndicator(h) == IF h = Nil THEN <<PyStr(NoneVal)>> ELSE <<>>

\* f"{str(node.data)} => "
TokenSepFirst(n) == Sep \o PyStr(nodes[n].data)
TokenNoSep(n) == PyStr(nodes[n].data)
Token(n) == PyStr(nodes[n].data) \o Sep

\* node = node.next_node
AdvanceStay(n) == n
AdvanceStop(n) == Nil
Advance(n) == nodes[n].next_node

Init ==
    /\ nodes = <<>>
    /\ lists = <<>>
    /\ pc = "idle"
    /\ self = Nil
    /\ node = Nil
    /\ ll_string = <<>>
    /\ calls = <<>>

\* Node(d, nx)
NewNode(d, nx) ==
    /\ pc = "idle"
    /\ Len(nodes) < MaxNodes
    /\ nodes' = Append(nodes, NewNodeObj(d, nx))
    /\ UNCHANGED <<lists, pc, self, node, ll_string, calls>>

\* LinkedList()
NewList(limit) ==
    /\ pc = "idle"
    /\ Len(lists) < limit
    /\ lists' = Append(lists, NewListObj)
    /\ UNCHANGED <<nodes, pc, self, node, ll_string, calls>>

RECURSIVE TailOf(_, _)
TailOf(n, k) ==
    IF n = Nil \/ k = 0 THEN n
    ELSE IF nodes[n].next_node = Nil THEN n ELSE TailOf(nodes[n].next_node, k - 1)

SetHeadTracksTail(l, n) ==
    /\ pc = "idle"
    /\ lists[l].head # n
    /\ lists' = [lists EXCEPT ![l] = [head |-> n, last_node |-> TailOf(n, MaxNodes)]]
    /\ calls' = <<>>
    /\ UNCHANGED <<nodes, pc, self, node, ll_string>>
SetHeadOnClass(l, n) ==
    /\ pc = "idle"
    /\ lists[l].head # n
    /\ lists' = [k \in ListIds |-> [lists[k] EXCEPT !.head = n]]
    /\ calls' = <<>>
    /\ UNCHANGED <<nodes, pc, self, node, ll_string>>
\* ll.head = n
SetHead(l, n) ==
    /\ pc = "idle"
    /\ lists[l].head # n
    /\ lists' = [lists EXCEPT ![l].head = n]
    /\ calls' = <<>>
    /\ UNCHANGED <<nodes, pc, self, node, ll_string>>

\* n.next_node = m
SetNext(n, m) ==
    /\ pc = "idle"
    /\ nodes[n].next_node # m
    /\ nodes' = [nodes EXCEPT ![n].next_node = m]
    /\ calls' = <<>>
    /\ UNCHANGED <<lists, pc, self, node, ll_string>>

\* print_LL, lines 15-18: the locals, and print(None) for an absent head
PrintLL_Begin(l) ==
    /\ pc = "idle"
    /\ self' = l
    /\ ll_string' = <<>>
    /\ node' = lists[l].head
    /\ calls' = Append(IF calls = <<>> THEN <<>> ELSE <<calls[Len(calls)]>>,
                       [self |-> l, out |-> EmptyIndicator(lists[l].head), steps |-> 0,
                        ret |-> NoCall])
    /\ pc' = "loop"
    /\ UNCHANGED <<nodes, lists>>

\* print_LL, lines 19-21: one iteration of `while node:`
PrintLL_Loop ==
    /\ pc = "loop"
    /\ node # Nil
    /\ calls[Len(calls)].steps < MaxIter
    /\ ll_string' = ll_string \o Token(node)
    /\ node' = Advance(node)
    /\ calls' = [calls EXCEPT ![Len(calls)].steps = @ + 1]
    /\ UNCHANGED <<nodes, lists, pc, self>>

PrintLL_EndConsumesHead ==
    /\ pc = "loop"
    /\ node = Nil
    /\ calls' = [calls EXCEPT ![Len(calls)].out = Append(@, ll_string \o Sentinel),
                              ![Len(calls)].ret = NoneVal]
    /\ lists' = [lists EXCEPT ![self].head = node]
    /\ pc' = "idle"
    /\ self' = Nil
    /\ node' = Nil
    /\ ll_string' = <<>>
    /\ UNCHANGED <<nodes>>
PrintLL_EndReturnsText ==
    /\ pc = "loop"
    /\ node = Nil
    /\ calls' = [calls EXCEPT ![Len(calls)].out = Append(@, ll_string \o Sentinel),
                              ![Len(calls)].ret = StrVal(ll_string \o Sentinel)]
    /\ pc' = "idle"
    /\ self' = Nil
    /\ node' = Nil
    /\ ll_string' = <<>>
    /\ UNCHANGED <<nodes, lists>>
\* print_LL, lines 23-24: the loop has ended; append "None", print, return
PrintLL_End ==
    /\ pc = "loop"
    /\ node = Nil
    /\ calls' = [calls EXCEPT ![Len(calls)].out = Append(@, ll_string \o Sentinel),
                              ![Len(calls)].ret = NoneVal]
    /\ pc' = "idle"
    /\ self' = Nil
    /\ node' = Nil
    /\ ll_string' = <<>>
    /\ UNCHANGED <<nodes, lists>>

Next ==
    \/ \E d \in DataValues : \E nx \in {Nil} \cup NodeIds : NewNode(d, nx)
    \/ NewList(MaxLists)
    \/ \E l \in ListIds : \E n \in {Nil} \cup NodeIds : SetHead(l, n)
    \/ \E l \in ListIds : PrintLL_Begin(l)
    \/ PrintLL_Loop
    \/ PrintLL_End

Spec == Init /\ [][Next]_vars

NextFew ==
    \/ \E d \in DataValues : \E nx \in {Nil} \cup NodeIds : NewNode(d, nx)
    \/ NewList(MaxFewLists)
    \/ \E l \in ListIds : \E n \in {Nil} \cup NodeIds : SetHead(l, n)
    \/ \E l \in ListIds : PrintLL_Begin(l)
    \/ PrintLL_Loop
    \/ PrintLL_End

\* print_LL is a synchronous call: once entered, its statements run
FairSpec ==
    Init /\ [][NextFew]_vars /\ WF_vars(PrintLL_Loop) /\ WF_vars(PrintLL_End)

\* the same program with callers that also assign a node's next_node
NextCyc ==
    \/ \E d \in DataValues : \E nx \in {Nil} \cup NodeIds : NewNode(d, nx)
    \/ NewList(MaxFewLists)
    \/ \E l \in ListIds : \E n \in {Nil} \cup NodeIds : SetHead(l, n)
    \/ \E l \in ListIds : PrintLL_Begin(l)
    \/ PrintLL_Loop
    \/ PrintLL_End
    \/ \E n \in NodeIds : \E m \in {Nil} \cup NodeIds : SetNext(n, m)

SpecCyc == Init /\ [][NextCyc]_vars

\* ------------------------------------------------------------ vocabulary
\* the nodes met by following next_node from n, at most k of them
RECURSIVE ChainFrom(_, _)
ChainFrom(n, k) ==
    IF n = Nil \/ k = 0 THEN <<>>
    ELSE <<n>> \o ChainFrom(nodes[n].next_node, k - 1)

\* the reference found after k hops from n (Nil once the chain has ended)
RECURSIVE EndOf(_, _)
EndOf(n, k) ==
    IF n = Nil \/ k = 0 THEN n ELSE EndOf(nodes[n].next_node, k - 1)

\* a chain without a cycle ends within as many hops as there are nodes
Acyclic(n) == EndOf(n, Len(nodes)) = Nil

Chain(l) == ChainFrom(lists[l].head, Len(nodes))
ChainSet(l) == {Chain(l)[k] : k \in 1..Len(Chain(l))}
Elements(l) == [k \in 1..Len(Chain(l)) |-> nodes[Chain(l)[k]].data]

\* str(e1) + " => " + ... + str(en) + " => " + "None"
RECURSIVE Rendering(_)
Rendering(es) ==
    IF es = <<>> THEN <<"N", "o", "n", "e">>
    ELSE PyStr(Head(es)) \o <<" ", "=", ">", " ">> \o Rendering(Tail(es))

\* where the text " => " occurs in a text
SepPositions(text) ==
    {k \in 1..(Len(text) - 3) : SubSeq(text, k, k + 3) = <<" ", "=", ">", " ">>}

Returned(c) == c.ret # NoCall
LastCall == calls[Len(calls)]
FirTwo == <<StrVal(<<"f", "i", "r">>), StrVal(<<"2">>)>>
FirTwoText ==
    <<"f", "i", "r", " ", "=", ">", " ", "2", " ", "=", ">", " ", "N", "o", "n", "e">>

\* ---------------------------------------------------------------- claims
\* C1: print_LL on a non-empty acyclic list with elements e1..en prints one
\* line only, str(e1) " => " ... str(en) " => " "None", in chain order; the
\* chain "fir" -> "2" prints "fir => 2 => None".
C1_RenderNonEmpty ==
    \A k \in 1..Len(calls) :
        (Returned(calls[k]) /\ lists[calls[k].self].head # Nil) =>
            /\ calls[k].out = <<Rendering(Elements(calls[k].self))>>
            /\ (Elements(calls[k].self) = FirTwo => calls[k].out = <<FirTwoText>>)

C1_Witness ==
    /\ calls # <<>>
    /\ Returned(LastCall)
    /\ Elements(LastCall.self) = FirTwo
    /\ LastCall.out = <<FirTwoText>>

\* C2: print_LL on an empty list prints two lines: the None indicator, then
\* the text "None" with no separator in it.
C2_RenderEmpty ==
    \A k \in 1..Len(calls) :
        (Returned(calls[k]) /\ lists[calls[k].self].head = Nil) =>
            /\ calls[k].out = << <<"N", "o", "n", "e">>, <<"N", "o", "n", "e">> >>
            /\ SepPositions(calls[k].out[2]) = {}

C2_Witness ==
    /\ calls # <<>>
    /\ Returned(LastCall)
    /\ lists[LastCall.self].head = Nil
    /\ Len(LastCall.out) = 2

\* C3: a print_LL call on a list whose chain is acyclic returns, after as many
\* loop iterations as the chain has nodes, with the rendering printed.
C3_Terminates ==
    \A l \in 1..MaxLists :
        (pc = "loop" /\ self = l /\ Acyclic(lists[l].head))
            ~> (/\ pc = "idle"
                /\ calls # <<>>
                /\ LastCall.self = l
                /\ Returned(LastCall)
                /\ LastCall.steps = Len(Chain(l))
                /\ LastCall.out # <<>>)

C3_Witness ==
    /\ pc = "idle"
    /\ calls # <<>>
    /\ Returned(LastCall)
    /\ LastCall.steps = 2
    /\ Len(Chain(LastCall.self)) = 2

\* C4: set_head accepts a cyclic chain, and a print_LL call on a list whose
\* chain has a cycle never leaves its loop: its cursor is never None, it
\* prints nothing and it never returns.
C4_CyclicNeverReturns ==
    /\ \A k \in 1..Len(calls) :
           Returned(calls[k]) => Acyclic(lists[calls[k].self].head)
    /\ (pc = "loop" /\ ~Acyclic(lists[self].head)) =>
           /\ node # Nil
           /\ LastCall.out = <<>>
           /\ LastCall.ret = NoCall

C4_Witness ==
    /\ pc = "loop"
    /\ ~Acyclic(lists[self].head)
    /\ LastCall.steps = MaxIter
    /\ LastCall.out = <<>>

\* C5: two print_LL calls in a row on the same list, with nothing changed in
\* between, print the same lines.
C5_Idempotent ==
    (Len(calls) = 2 /\ Returned(calls[1]) /\ Returned(calls[2])
        /\ calls[1].self = calls[2].self) => calls[1].out = calls[2].out

C5_Witness ==
    /\ Len(calls) = 2
    /\ Returned(calls[1])
    /\ Returned(calls[2])
    /\ calls[1].self = calls[2].self
    /\ Len(Chain(calls[1].self)) = 2
    /\ calls[1].out = calls[2].out

C5_WitnessEmpty ==
    /\ Len(calls) = 2
    /\ Returned(calls[1])
    /\ Returned(calls[2])
    /\ calls[1].self = calls[2].self
    /\ lists[calls[1].self].head = Nil

\* C6: no step of print_LL changes a list's head or last_node or a node's data
\* or next_node, and the call returns None, not the rendered string.
C6_RenderFrame ==
    [][(pc = "loop" \/ pc' = "loop") =>
          /\ nodes' = nodes
          /\ lists' = lists
          /\ (pc' = "idle" => calls'[Len(calls')].ret = NoneVal)]_vars

C6_Witness ==
    /\ pc = "idle"
    /\ calls # <<>>
    /\ LastCall.ret = NoneVal
    /\ LastCall.steps >= 1
    /\ lists[LastCall.self].head # Nil

\* C7: the list LinkedList() returns has head and last_node absent and no
\* nodes in its chain.
C7_ConstructEmpty ==
    [][Len(lists') = Len(lists) + 1 =>
          /\ lists'[Len(lists')].head = Nil
          /\ lists'[Len(lists')].last_node = Nil
          /\ ChainFrom(lists'[Len(lists')].head, Len(nodes)) = <<>>
          /\ SubSeq(lists', 1, Len(lists)) = lists]_vars

C7_Witness ==
    /\ Len(lists) = 2
    /\ Len(nodes) >= 1
    /\ lists[2] = [head |-> Nil, last_node |-> Nil]
    /\ lists[1].head # Nil

\* C8 as stated: no two distinct lists have a node in common in their chains.
C8_NoSharedNode ==
    \A l1, l2 \in ListIds : l1 # l2 => ChainSet(l1) \cap ChainSet(l2) = {}

\* a set_head that installs a chain having a node in common with the chain of
\* another list
SetHeadOfSharedChain ==
    \E l \in ListIds :
        /\ lists'[l].head # lists[l].head
        /\ \E m \in ListIds \ {l} :
               {ChainFrom(lists'[l].head, Len(nodes))[k] :
                    k \in 1..Len(ChainFrom(lists'[l].head, Len(nodes)))}
                 \cap ChainSet(m) # {}

\* C8 amended: no operation makes two lists share a node, except a set_head
\* that is given a chain already sharing a node with another list's chain.
C8_SharingOnlyBySetHead ==
    [][(C8_NoSharedNode /\ ~SetHeadOfSharedChain) => C8_NoSharedNode']_vars

C8_Witness ==
    /\ Len(lists) = 2
    /\ lists[1].head # Nil
    /\ lists[2].head # Nil
    /\ ChainSet(1) \cap ChainSet(2) = {}

\* C9: last_node of every list stays absent, whatever head is set to.
C9_LastNodeAbsent ==
    \A l \in ListIds : lists[l].last_node = Nil

C9_Witness ==
    /\ pc = "idle"
    /\ calls # <<>>
    /\ Returned(LastCall)
    /\ Len(Chain(LastCall.self)) = 2
    /\ lists[LastCall.self].last_node = Nil
    /\ lists[LastCall.self].last_node # Chain(LastCall.self)[2]

\* C10: print_LL on a list of one node with data x prints str(x) " => None":
\* one separator is written, after the element's text and not before it.
C10_SingleNode ==
    \A k \in 1..Len(calls) :
        (Returned(calls[k]) /\ Len(Chain(calls[k].self)) = 1) =>
            LET x == Elements(calls[k].self)[1]
                text == calls[k].out[1]
            IN  /\ Len(calls[k].out) = 1
                /\ calls[k].steps = 1
                /\ text = PyStr(x) \o <<" ", "=", ">", " ", "N", "o", "n", "e">>
                /\ SubSeq(text, 1, Len(PyStr(x))) = PyStr(x)
                /\ (SepPositions(PyStr(x)) = {} =>
                        SepPositions(text) = {Len(PyStr(x)) + 1})

C10_Witness ==
    /\ calls # <<>>
    /\ Returned(LastCall)
    /\ Len(Chain(LastCall.self)) = 1
    /\ SepPositions(LastCall.out[1]) = {Len(LastCall.out[1]) - 7}
====
